---- MODULE Spec2Model ----
(***************************************************************************)
(* Model of the Jmail WSGI application (src/jmail): the base64 codec, the  *)
(* password hasher, the signed-token engine, the register / login /        *)
(* profile / send handlers and the sqlite user store.                      *)
(*                                                                         *)
(* Specifications: Spec (register and login under a threaded server),      *)
(* TokenSpec (clients keeping and presenting tokens), AccountSpec          *)
(* (register and login, every request shape), ApiSpec (every endpoint) and *)
(* CredSpec (login against rows another writer left in the database).      *)
(*                                                                         *)
(* Text is modelled as sequences.  An email is a sequence of one-character *)
(* strings.  A base64 segment is a sequence of character codes: 0..63 are  *)
(* the characters of the URL-safe alphabet (the code is the 6-bit value),  *)
(* PadCh is '=', JunkCh is an ASCII character outside the alphabet and     *)
(* NonAsciiCh is a character outside ASCII.  A token is the sequence of    *)
(* its '.'-separated segments, a stored credential the sequence of its     *)
(* '$'-separated segments.                                                 *)
(*                                                                         *)
(* HMAC-SHA256 and PBKDF2 are modelled as ideal functions: injective maps  *)
(* of their inputs to byte strings of DigestLen bytes.  DigestLen leaves   *)
(* the remainder 2 when divided by 3, as the 32 bytes of SHA-256 do, so    *)
(* that the last character of an encoded digest has two unused bits.       *)
(***************************************************************************)
EXTENDS Integers, Sequences, FiniteSets, Bags, TLC

\* ---------------------------------------------------------------- bounds
MaxTime == 1
MaxTTL == 2
MaxUsers == 2
NumThreads == 2
NumSecrets == 2
NumSalts == 1
DigestLen == 2

Secrets == 1..NumSecrets
\* The JWT_SECRET this deployment runs with; the other secrets are other signers'.
ConfiguredSecret == 1
Salts == 1..NumSalts
TTLs == 0..MaxTTL

\* ---------------------------------------------------------------- codec
PadCh == 64
JunkCh == 65
NonAsciiCh == 66

B64Ok(bs) == [ok |-> TRUE, bytes |-> bs, exc |-> "none", msg |-> "none"]
B64Err(exc, msg) == [ok |-> FALSE, bytes |-> <<>>, exc |-> exc, msg |-> msg]

RECURSIVE _b64encode(_)
_b64encode(data) ==
  IF Len(data) = 0 THEN <<>>
  ELSE IF Len(data) = 1 THEN
    <<data[1] \div 4, (data[1] % 4) * 16>>
  ELSE IF Len(data) = 2 THEN
    <<data[1] \div 4, (data[1] % 4) * 16 + data[2] \div 16, (data[2] % 16) * 4>>
  ELSE
    <<data[1] \div 4,
      (data[1] % 4) * 16 + data[2] \div 16,
      (data[2] % 16) * 4 + data[3] \div 64,
      data[3] % 64>> \o _b64encode(SubSeq(data, 4, Len(data)))

\* binascii.a2b_base64 in its default (non-strict) mode.
RECURSIVE a2b_base64(_, _, _, _, _, _)
a2b_base64(data, i, quad_pos, leftchar, pads, out) ==
  IF i > Len(data) THEN
    IF quad_pos = 0 THEN B64Ok(out)
    ELSE IF quad_pos = 1 THEN
      B64Err("binascii.Error", "Invalid base64-encoded string: number of data characters cannot be 1 more than a multiple of 4")
    ELSE B64Err("binascii.Error", "Incorrect padding")
  ELSE IF data[i] = PadCh THEN
    IF quad_pos >= 2 /\ quad_pos + pads + 1 >= 4 THEN B64Ok(out)
    ELSE a2b_base64(data, i + 1, quad_pos, leftchar,
                    IF quad_pos >= 2 THEN pads + 1 ELSE pads, out)
  ELSE IF data[i] > 63 THEN
    a2b_base64(data, i + 1, quad_pos, leftchar, pads, out)
  ELSE IF quad_pos = 0 THEN
    a2b_base64(data, i + 1, 1, data[i], 0, out)
  ELSE IF quad_pos = 1 THEN
    a2b_base64(data, i + 1, 2, data[i] % 16, 0,
               Append(out, leftchar * 4 + data[i] \div 16))
  ELSE IF quad_pos = 2 THEN
    a2b_base64(data, i + 1, 3, data[i] % 4, 0,
               Append(out, leftchar * 16 + data[i] \div 4))
  ELSE
    a2b_base64(data, i + 1, 0, 0, 0, Append(out, leftchar * 64 + data[i]))

_b64decode(data) ==
  LET padding == [k \in 1..((4 - (Len(data) % 4)) % 4) |-> PadCh] IN
  IF \E k \in 1..Len(data) : data[k] = NonAsciiCh THEN
    B64Err("ValueError", "string argument should contain only ASCII characters")
  ELSE a2b_base64(data \o padding, 1, 0, 0, 0, <<>>)

\* The len big-endian bytes of a number.
RECURSIVE ToBytes(_, _)
ToBytes(n, len) ==
  IF len = 0 THEN <<>> ELSE Append(ToBytes(n \div 256, len - 1), n % 256)


RECURSIVE FromBytes(_)
FromBytes(bs) ==
  IF Len(bs) = 0 THEN 0 ELSE FromBytes(SubSeq(bs, 1, Len(bs) - 1)) * 256 + bs[Len(bs)]

\* ---------------------------------------------------------------- password hasher
Passwords == <<"password123", "hunter2">>
PwIdx(password) == CHOOSE i \in 1..Len(Passwords) : Passwords[i] = password

\* PBKDF2-HMAC-SHA256 as an ideal key derivation: injective in (password, salt).
pbkdf2_hmac(password, salt) ==
  ToBytes(PwIdx(password) * 256 + (FromBytes(salt) % 256), DigestLen)

\* salt is the value os.urandom returned; the result is the '$'-separated parts.
hash_password(password, salt) ==
  <<_b64encode(<<salt>>), _b64encode(pbkdf2_hmac(password, <<salt>>))>>

\* verify_password deriving the key without the stored salt.
verify_password_nosalt(password, stored) ==
  IF Len(stored) # 2 THEN [exc |-> "none", msg |-> "none", val |-> FALSE]
  ELSE LET expected == _b64decode(stored[2])
       IN [exc |-> "none", msg |-> "none",
           val |-> (expected.bytes = pbkdf2_hmac(password, <<>>))]

\* verify_password letting the unpacking error of a malformed credential out.
verify_password_strict(password, stored) ==
  IF Len(stored) # 2 THEN
    [exc |-> "ValueError", msg |-> "not enough values to unpack", val |-> FALSE]
  ELSE LET salt == _b64decode(stored[1])
           expected == _b64decode(stored[2])
       IN IF ~salt.ok THEN [exc |-> salt.exc, msg |-> salt.msg, val |-> FALSE]
          ELSE IF ~expected.ok THEN [exc |-> expected.exc, msg |-> expected.msg, val |-> FALSE]
          ELSE [exc |-> "none", msg |-> "none",
                val |-> (expected.bytes = pbkdf2_hmac(password, salt.bytes))]

verify_password(password, stored) ==
  IF Len(stored) # 2 THEN [exc |-> "none", msg |-> "none", val |-> FALSE]
  ELSE LET salt == _b64decode(stored[1])
           expected == _b64decode(stored[2])
       IN IF ~salt.ok THEN [exc |-> salt.exc, msg |-> salt.msg, val |-> FALSE]
          ELSE IF ~expected.ok THEN [exc |-> expected.exc, msg |-> expected.msg, val |-> FALSE]
          ELSE [exc |-> "none", msg |-> "none",
                val |-> (expected.bytes = pbkdf2_hmac(password, salt.bytes))]

\* ---------------------------------------------------------------- token engine
Absent == -1
HeaderObj == [alg |-> "HS256", typ |-> "JWT"]
NoPayload == [sub |-> Absent, iat |-> Absent, exp |-> Absent]

\* _b64encode(json.dumps(obj).encode()): a segment that carries the object.
JsonSeg(obj) == [kind |-> "json", obj |-> obj]
\* Segments that are not the encoding of a JSON object.
BadJsonSeg == [kind |-> "badjson", obj |-> NoPayload]
BadB64Seg == [kind |-> "badb64", obj |-> NoPayload]

\* json.loads(_b64decode(segment))
LoadSeg(seg) ==
  IF seg.kind = "json" THEN [exc |-> "none", msg |-> "none", obj |-> seg.obj]
  ELSE IF seg.kind = "badb64" THEN
    [exc |-> "binascii.Error", msg |-> "Incorrect padding", obj |-> NoPayload]
  ELSE [exc |-> "JSONDecodeError", msg |-> "Expecting value", obj |-> NoPayload]

PayloadCode(seg) ==
  IF seg.kind = "json"
  THEN ((seg.obj.sub + 1) * 16 + (seg.obj.iat + 1)) * 16 + (seg.obj.exp + 1)
  ELSE IF seg.kind = "badjson" THEN 4094 ELSE 4095

\* A MAC that does not depend on the key.
hmac_sha256_nokey(key, header_b64, payload_b64) ==
  ToBytes((IF header_b64 = JsonSeg(HeaderObj) THEN 0 ELSE 1) * 4096
             + PayloadCode(payload_b64), DigestLen)

\* HMAC-SHA256 as an ideal MAC: injective in (key, signing input).
hmac_sha256(key, header_b64, payload_b64) ==
  ToBytes((key * 2 + (IF header_b64 = JsonSeg(HeaderObj) THEN 0 ELSE 1)) * 4096
             + PayloadCode(payload_b64), DigestLen)

\* generate_token leaving the lifetime out of exp.
generate_token_nottl(user_id, now_, cfg) ==
  LET header_b64 == JsonSeg(HeaderObj)
      payload_b64 == JsonSeg([sub |-> user_id, iat |-> now_, exp |-> now_])
  IN <<header_b64, payload_b64,
       _b64encode(hmac_sha256(cfg.jwt_secret, header_b64, payload_b64))>>

\* generate_token putting a fixed subject in the payload.
generate_token_fixedsub(user_id, now_, cfg) ==
  LET header_b64 == JsonSeg(HeaderObj)
      payload_b64 == JsonSeg([sub |-> 1, iat |-> now_,
                              exp |-> now_ + cfg.token_exp_seconds])
  IN <<header_b64, payload_b64,
       _b64encode(hmac_sha256(cfg.jwt_secret, header_b64, payload_b64))>>

generate_token(user_id, now_, cfg) ==
  LET header_b64 == JsonSeg(HeaderObj)
      payload_b64 == JsonSeg([sub |-> user_id, iat |-> now_,
                              exp |-> now_ + cfg.token_exp_seconds])
  IN <<header_b64, payload_b64,
       _b64encode(hmac_sha256(cfg.jwt_secret, header_b64, payload_b64))>>

Decoded(payload) == [exc |-> "none", msg |-> "ok", payload |-> payload]
DecodeRaise(exc, msg) == [exc |-> exc, msg |-> msg, payload |-> NoPayload]

\* decode_token accepting a token at the instant it expires.
decode_token_late(token, now_, cfg) ==
  IF Len(token) # 3 THEN DecodeRaise("ValueError", "Malformed token")
  ELSE LET expected_sig == hmac_sha256(cfg.jwt_secret, token[1], token[2])
           supplied == _b64decode(token[3])
           loaded == LoadSeg(token[2])
           exp == IF loaded.obj.exp = Absent THEN 0 ELSE loaded.obj.exp
       IN IF ~supplied.ok THEN DecodeRaise(supplied.exc, supplied.msg)
          ELSE IF expected_sig # supplied.bytes THEN
            DecodeRaise("ValueError", "Invalid signature")
          ELSE IF loaded.exc # "none" THEN DecodeRaise(loaded.exc, loaded.msg)
          ELSE IF now_ > exp THEN DecodeRaise("ValueError", "Token expired")
          ELSE Decoded(loaded.obj)

decode_token(token, now_, cfg) ==
  IF Len(token) # 3 THEN DecodeRaise("ValueError", "Malformed token")
  ELSE LET expected_sig == hmac_sha256(cfg.jwt_secret, token[1], token[2])
           supplied == _b64decode(token[3])
           loaded == LoadSeg(token[2])
           exp == IF loaded.obj.exp = Absent THEN 0 ELSE loaded.obj.exp
       IN IF ~supplied.ok THEN DecodeRaise(supplied.exc, supplied.msg)
          ELSE IF expected_sig # supplied.bytes THEN
            DecodeRaise("ValueError", "Invalid signature")
          ELSE IF loaded.exc # "none" THEN DecodeRaise(loaded.exc, loaded.msg)
          ELSE IF now_ >= exp THEN DecodeRaise("ValueError", "Token expired")
          ELSE Decoded(loaded.obj)

\* ---------------------------------------------------------------- email
Whitespace == {" "}
LowerCh(c) == IF c = "A" THEN "a" ELSE IF c = "B" THEN "b" ELSE IF c = "X" THEN "x" ELSE c

\* str.lower()
lower(s) == [i \in 1..Len(s) |-> LowerCh(s[i])]

\* str.strip()
RECURSIVE strip(_)
strip(s) ==
  IF Len(s) = 0 THEN s
  ELSE IF s[1] \in Whitespace THEN strip(SubSeq(s, 2, Len(s)))
  ELSE IF s[Len(s)] \in Whitespace THEN strip(SubSeq(s, 1, Len(s) - 1))
  ELSE s

\* The pattern without the dot and the part after it: ^[^@\s]+@[^@\s]+$
EMAIL_REGEX_nodot(address) ==
  \E i \in 1..Len(address) :
    /\ i >= 2 /\ i < Len(address) /\ address[i] = "@"
    /\ \A k \in 1..Len(address) : k # i => address[k] \notin ({"@"} \cup Whitespace)

\* EMAIL_REGEX.match(address): ^[^@\s]+@[^@\s]+\.[^@\s]+$
EMAIL_REGEX(address) ==
  \E i, j \in 1..Len(address) :
    /\ i >= 2 /\ address[i] = "@"
    /\ j > i + 1 /\ j < Len(address) /\ address[j] = "."
    /\ \A k \in 1..Len(address) : k # i => address[k] \notin ({"@"} \cup Whitespace)

\* An exception: its class, its message, and the status of an HTTPError.
Exc(cls, msg, status) == [cls |-> cls, msg |-> msg, status |-> status]
NoExc == Exc("none", "none", 0)
IsValueError(cls) == cls \in {"ValueError", "binascii.Error", "JSONDecodeError"}

validate_email(address) ==
  IF ~EMAIL_REGEX(address) THEN Exc("ValueError", "Invalid email address", 0) ELSE NoExc

\* ---------------------------------------------------------------- store
NoneVal == "<None>"
NoRow == [id |-> 0, email |-> <<>>, password_hash |-> <<>>,
          display_name |-> NoneVal, created_at |-> 0]

get_user_by_email(rows, email) ==
  IF \E i \in 1..Len(rows) : rows[i].email = email
  THEN rows[CHOOSE i \in 1..Len(rows) : rows[i].email = email]
  ELSE NoRow

get_user_by_id(rows, user_id) ==
  IF user_id \in 1..Len(rows) THEN rows[user_id] ELSE NoRow

\* A users table without the UNIQUE constraint on email.
UniqueViolation_none(rows, email) == FALSE

\* The UNIQUE constraint on users.email: does the INSERT raise IntegrityError?
UniqueViolation(rows, email) == \E i \in 1..Len(rows) : rows[i].email = email

\* INSERT INTO users: the table after the insert; the new id is its length.
create_user(rows, email, password_hash, display_name, now_) ==
  Append(rows, [id |-> Len(rows) + 1, email |-> email,
                password_hash |-> password_hash,
                display_name |-> display_name, created_at |-> now_])

NoUser == [id |-> 0, email |-> <<>>, display_name |-> NoneVal,
           created_at |-> [iso |-> 0]]

\* row_to_dict copying every column of the row.
row_to_dict_all(row) ==
  [id |-> row.id, email |-> row.email, password_hash |-> row.password_hash,
   display_name |-> row.display_name, created_at |-> [iso |-> row.created_at]]

row_to_dict(row) ==
  [id |-> row.id, email |-> row.email, display_name |-> row.display_name,
   created_at |-> [iso |-> row.created_at]]

\* ---------------------------------------------------------------- HTTP layer
NoToken == <<>>
UnauthorizedError(msg) == Exc("UnauthorizedError", msg, 401)
BadRequestError(msg) == Exc("BadRequestError", msg, 400)
ConflictError(msg) == Exc("ConflictError", msg, 409)
IsHTTPError(cls) == cls \in {"UnauthorizedError", "BadRequestError", "ConflictError"}

\* "already" in message, over the messages a ValueError can carry here.
\* The test for the whole message "already" instead of the substring.
ContainsAlready_exact(msg) == msg = "already"

ContainsAlready(msg) == msg \in {"Email already registered"}

\* JmailApplication.__call__: the status and error text for what dispatch raised.
CallStatus(exc) ==
  IF exc.cls = "none" THEN 200
  ELSE IF IsHTTPError(exc.cls) THEN exc.status
  ELSE 500

CallError(exc) ==
  IF exc.cls = "none" THEN "none"
  ELSE IF IsHTTPError(exc.cls) \/ exc.cls = "EmailConfigurationError" THEN exc.msg
  ELSE "Internal server error"

\* handle_register's "except ValueError" clause.
RegisterError(exc) ==
  IF ~IsValueError(exc.cls) THEN exc
  ELSE IF ContainsAlready(exc.msg) THEN ConflictError(exc.msg)
  ELSE BadRequestError(exc.msg)

\* An Authorization header: its scheme prefix and what follows it.
NoHeader == [scheme |-> "none", token |-> NoToken]
Bearer(token) == [scheme |-> "Bearer", token |-> token]

\* _require_user decoding whatever the header holds, Bearer or not.
_require_user_anyscheme(auth_header, rows, now_, cfg) ==
  LET d == decode_token(auth_header.token, now_, cfg)
      row == get_user_by_id(rows, d.payload.sub)
  IN IF d.exc # "none" THEN
       [exc |-> UnauthorizedError(d.msg), user |-> NoUser, dec |-> d.msg, lookups |-> 0]
     ELSE IF row = NoRow THEN
       [exc |-> UnauthorizedError("User not found"), user |-> NoUser,
        dec |-> d.msg, lookups |-> 1]
     ELSE [exc |-> NoExc, user |-> row_to_dict(row), dec |-> d.msg, lookups |-> 1]

\* _require_user without the test for a missing row: row_to_dict(None) raises.
_require_user_nocheck(auth_header, rows, now_, cfg) ==
  IF auth_header.scheme # "Bearer" THEN
    [exc |-> UnauthorizedError("Missing Authorization header"), user |-> NoUser,
     dec |-> "not decoded", lookups |-> 0]
  ELSE LET d == decode_token(auth_header.token, now_, cfg)
           row == get_user_by_id(rows, d.payload.sub)
       IN IF d.exc # "none" THEN
            [exc |-> UnauthorizedError(d.msg), user |-> NoUser, dec |-> d.msg,
             lookups |-> 0]
          ELSE IF d.payload.sub = Absent THEN
            [exc |-> UnauthorizedError("Token missing subject"), user |-> NoUser,
             dec |-> d.msg, lookups |-> 0]
          ELSE IF row = NoRow THEN
            [exc |-> Exc("TypeError", "'NoneType' object is not subscriptable", 0),
             user |-> NoUser, dec |-> d.msg, lookups |-> 1]
          ELSE [exc |-> NoExc, user |-> row_to_dict(row), dec |-> d.msg, lookups |-> 1]

\* _require_user: the exception or the user view, and the store lookups made.
_require_user(auth_header, rows, now_, cfg) ==
  IF auth_header.scheme # "Bearer" THEN
    [exc |-> UnauthorizedError("Missing Authorization header"), user |-> NoUser,
     dec |-> "not decoded", lookups |-> 0]
  ELSE LET d == decode_token(auth_header.token, now_, cfg)
           row == get_user_by_id(rows, d.payload.sub)
       IN IF d.exc # "none" THEN
            [exc |-> IF IsValueError(d.exc) THEN UnauthorizedError(d.msg)
                     ELSE Exc(d.exc, d.msg, 0),
             user |-> NoUser, dec |-> d.msg, lookups |-> 0]
          ELSE IF d.payload.sub = Absent THEN
            [exc |-> UnauthorizedError("Token missing subject"), user |-> NoUser,
             dec |-> d.msg, lookups |-> 0]
          ELSE IF row = NoRow THEN
            [exc |-> UnauthorizedError("User not found"), user |-> NoUser,
             dec |-> d.msg, lookups |-> 1]
          ELSE [exc |-> NoExc, user |-> row_to_dict(row), dec |-> d.msg, lookups |-> 1]

\* authenticate_user telling a missing user from a wrong password.
authenticate_user_leaky(rows, email, password, now_, cfg) ==
  LET row == get_user_by_email(rows, email)
      v == verify_password(password, row.password_hash)
  IN IF row = NoRow THEN
       [exc |-> Exc("ValueError", "No such user", 0),
        token |-> NoToken, user |-> NoUser]
     ELSE IF v.exc # "none" THEN
       [exc |-> Exc(v.exc, v.msg, 0), token |-> NoToken, user |-> NoUser]
     ELSE IF ~v.val THEN
       [exc |-> Exc("ValueError", "Invalid email or password", 0),
        token |-> NoToken, user |-> NoUser]
     ELSE [exc |-> NoExc, token |-> generate_token(row.id, now_, cfg),
           user |-> row_to_dict(row)]

\* authenticate_user
authenticate_user(rows, email, password, now_, cfg) ==
  LET row == get_user_by_email(rows, email)
      v == verify_password(password, row.password_hash)
  IN IF row = NoRow THEN
       [exc |-> Exc("ValueError", "Invalid email or password", 0),
        token |-> NoToken, user |-> NoUser]
     ELSE IF v.exc # "none" THEN
       [exc |-> Exc(v.exc, v.msg, 0), token |-> NoToken, user |-> NoUser]
     ELSE IF ~v.val THEN
       [exc |-> Exc("ValueError", "Invalid email or password", 0),
        token |-> NoToken, user |-> NoUser]
     ELSE [exc |-> NoExc, token |-> generate_token(row.id, now_, cfg),
           user |-> row_to_dict(row)]

\* register_user up to its get_user_by_email, with handle_register's field
\* checks before it: the exception raised, or none when the insert is next.
register_precheck(rows, raw_email, password) ==
  LET email == lower(strip(raw_email))
      invalid == validate_email(email)
  IN IF email = <<>> \/ password = "" THEN
       [exc |-> BadRequestError("Email and password are required"), stage |-> "fields"]
     ELSE IF invalid.cls # "none" THEN
       [exc |-> RegisterError(invalid), stage |-> "validate"]
     ELSE IF get_user_by_email(rows, email) # NoRow THEN
       [exc |-> RegisterError(Exc("ValueError", "Email already registered", 0)),
        stage |-> "precheck"]
     ELSE [exc |-> NoExc, stage |-> "insert"]

\* register_user from hash_password on: create_user, get_user_by_id, generate_token.
register_insert(rows, email, password, display_name, salt, now_, cfg) ==
  LET password_hash == hash_password(password, salt)
      created == create_user(rows, email, password_hash, display_name, now_)
      user_id == Len(created)
      row == get_user_by_id(created, user_id)
  IN IF UniqueViolation(rows, email) THEN
       [exc |-> RegisterError(Exc("IntegrityError",
                                  "UNIQUE constraint failed: users.email", 0)),
        stage |-> "unique", rows |-> rows, token |-> NoToken, user |-> NoUser]
     ELSE [exc |-> NoExc, stage |-> "insert", rows |-> created,
           token |-> generate_token(user_id, now_, cfg), user |-> row_to_dict(row)]

\* A JSON body of /api/send: the fields it carries, empty where it has none.
SendBody(to, subject, body, reply_to) ==
  [kind |-> "json", to |-> to, subject |-> subject, body |-> body, reply_to |-> reply_to]
\* A request body that is not JSON.
BadJsonBody == [kind |-> "badjson", to |-> <<>>, subject |-> <<>>, body |-> <<>>,
                reply_to |-> <<>>]
NoBody == SendBody(<<>>, <<>>, <<>>, <<>>)

\* _parse_json
_parse_json(body) ==
  IF body.kind # "json" THEN BadRequestError("Invalid JSON payload") ELSE NoExc

\* send_email: the configuration check, then the SMTP session, which the mail
\* server lets succeed or not.
send_email(cfg, smtp_ok) ==
  IF ~cfg.smtp_configured THEN
    [exc |-> Exc("EmailConfigurationError",
                 "SMTP credentials are not configured. Set SMTP_HOST, SMTP_USERNAME, and SMTP_PASSWORD.",
                 0),
     mail |-> "not configured"]
  ELSE IF ~smtp_ok THEN [exc |-> Exc("SMTPException", "smtp", 0), mail |-> "failed"]
  ELSE [exc |-> NoExc, mail |-> "sent"]

\* handle_send reading and validating the payload before it authorizes.
handle_send_payloadfirst(auth_header, body, rows, now_, cfg, smtp_ok) ==
  LET auth == _require_user(auth_header, rows, now_, cfg)
      parsed == _parse_json(body)
      recipient == strip(body.to)
      subject == strip(body.subject)
      text == strip(body.body)
      sent == send_email(cfg, smtp_ok)
      out(exc, stage, mail) ==
        [exc |-> exc, stage |-> stage, mail |-> mail, dec |-> auth.dec,
         lookups |-> auth.lookups]
  IN IF parsed.cls # "none" THEN out(parsed, "parse", "not invoked")
     ELSE IF recipient = <<>> \/ subject = <<>> \/ text = <<>> THEN
       out(BadRequestError("Recipient, subject, and body are required"), "fields",
           "not invoked")
     ELSE IF validate_email(recipient).cls # "none" THEN
       out(BadRequestError(validate_email(recipient).msg), "validate", "not invoked")
     ELSE IF body.reply_to # <<>> /\ validate_email(body.reply_to).cls # "none" THEN
       out(BadRequestError(validate_email(body.reply_to).msg), "validate", "not invoked")
     ELSE IF auth.exc.cls # "none" THEN out(auth.exc, "authorize", "not invoked")
     ELSE out(sent.exc, "send", sent.mail)

\* handle_send: the exception raised or none, and whether send_email was invoked.
handle_send(auth_header, body, rows, now_, cfg, smtp_ok) ==
  LET auth == _require_user(auth_header, rows, now_, cfg)
      parsed == _parse_json(body)
      recipient == strip(body.to)
      subject == strip(body.subject)
      text == strip(body.body)
      sent == send_email(cfg, smtp_ok)
      out(exc, stage, mail) ==
        [exc |-> exc, stage |-> stage, mail |-> mail, dec |-> auth.dec,
         lookups |-> auth.lookups]
  IN IF auth.exc.cls # "none" THEN out(auth.exc, "authorize", "not invoked")
     ELSE IF parsed.cls # "none" THEN out(parsed, "parse", "not invoked")
     ELSE IF recipient = <<>> \/ subject = <<>> \/ text = <<>> THEN
       out(BadRequestError("Recipient, subject, and body are required"), "fields",
           "not invoked")
     ELSE IF validate_email(recipient).cls # "none" THEN
       out(BadRequestError(validate_email(recipient).msg), "validate", "not invoked")
     ELSE IF body.reply_to # <<>> /\ validate_email(body.reply_to).cls # "none" THEN
       out(BadRequestError(validate_email(body.reply_to).msg), "validate", "not invoked")
     ELSE out(sent.exc, "send", sent.mail)

\* build_request's int(environ.get("CONTENT_LENGTH") or 0)
build_request(content_length) ==
  IF content_length = "abc" THEN
    Exc("ValueError", "invalid literal for int() with base 10: 'abc'", 0)
  ELSE NoExc

\* ---------------------------------------------------------------- state
VARIABLES
  config,      \* AppConfig: jwt_secret and token_exp_seconds, fixed at start-up
  now,         \* int(time.time())
  users,       \* the users table, in id order
  inflight,    \* the register requests between their two store calls, one per busy thread
  last,        \* the request completed last, with its response
  held,        \* a token a client kept from a response, and the user it was issued for
  registered   \* history: the register requests that were answered 200

vars == <<config, now, users, inflight, last, held, registered>>

\* ---------------------------------------------------------------- requests
E_alice == <<"a", "@", "x", ".", "y">>
E_Alice == <<" ", "A", "@", "X", ".", "y">>
E_bob == <<"b", "@", "x", ".", "y">>
E_nodot == <<"a", "@", "x">>
E_blank == <<" ">>

RegisterRequests ==
  { [email |-> E_Alice, password |-> "password123", display_name |-> "Alice"],
    [email |-> E_alice, password |-> "hunter2", display_name |-> NoneVal],
    [email |-> E_bob, password |-> "password123", display_name |-> NoneVal],
    [email |-> E_nodot, password |-> "password123", display_name |-> NoneVal],
    [email |-> E_blank, password |-> "password123", display_name |-> NoneVal],
    [email |-> E_bob, password |-> "", display_name |-> NoneVal] }

LoginRequests ==
  [email : {E_alice, E_Alice, E_bob}, password : {"password123", "hunter2"}]
    \cup { [email |-> E_blank, password |-> "hunter2"],
           [email |-> E_alice, password |-> ""] }

\* What a client can put in place of a token's signature segment.
SigMutations(sig) ==
  ( { SubSeq(sig, 1, Len(sig) - k) : k \in 1..Len(sig) }
    \cup { sig \o <<JunkCh>>, sig \o <<JunkCh, JunkCh, JunkCh, JunkCh>>,
           sig \o <<PadCh>>, sig \o <<0>>, sig \o <<NonAsciiCh>>,
           [sig EXCEPT ![1] = (@ + 1) % 64],
           [sig EXCEPT ![Len(sig)] = (@ + 1) % 64] } ) \ {sig}

NoHeld == [tok |-> NoToken, uid |-> 0]

\* Tokens signed by someone else: issued under another secret.
ForeignTokens ==
  { generate_token(u, iat, [jwt_secret |-> s, token_exp_seconds |-> MaxTTL]) :
      s \in Secrets \ {config.jwt_secret}, u \in 1..MaxUsers, iat \in {0, now} }

ProfileHeaders ==
  {NoHeader, [scheme |-> "Basic", token |-> NoToken]}
    \cup { Bearer(t) : t \in ForeignTokens }
    \cup IF held = NoHeld THEN {}
         ELSE {Bearer(held.tok)}
                \cup { Bearer([held.tok EXCEPT ![3] = m]) : m \in SigMutations(held.tok[3]) }

Blank ==
  [op |-> "none", stage |-> "none", email |-> <<>>, password |-> "",
   display_name |-> NoneVal, header |-> NoHeader, owner |-> 0,
   status |-> 0, error |-> "none", raised |-> "none",
   token |-> NoToken, user |-> NoUser, at |-> 0,
   dec |-> "not decoded", lookups |-> 0,
   body |-> NoBody, mail |-> "not invoked", started |-> 0, propagated |-> "none"]

\* The response __call__ builds for what dispatch raised or returned, handed
\* to start_response once.
Respond(base, exc, token, user) ==
  [base EXCEPT !.status = CallStatus(exc), !.error = CallError(exc),
               !.raised = exc.cls, !.token = token, !.user = user, !.at = now,
               !.started = 1]

RegisterBase(rq, stage) ==
  [Blank EXCEPT !.op = "register", !.stage = stage, !.email = rq.email,
                !.password = rq.password, !.display_name = rq.display_name]

\* ---------------------------------------------------------------- actions
\* The state create_app leaves: an empty table, no request in progress.  The
\* token lifetime plays no part in registration and login; TokenInit varies it.
Init ==
  /\ config = [jwt_secret |-> ConfiguredSecret, token_exp_seconds |-> MaxTTL]
  /\ now = 0
  /\ users = <<>>
  /\ inflight = EmptyBag
  /\ last = Blank
  /\ held = NoHeld
  /\ registered = {}

\* What the insert step of a register request leaves behind.
InsertOutcome(rq, salt) ==
  LET r == register_insert(users, lower(strip(rq.email)), rq.password,
                           rq.display_name, salt, now, config)
  IN /\ users' = r.rows
     /\ last' = Respond(RegisterBase(rq, r.stage), r.exc, r.token, r.user)
     /\ registered' = IF r.exc.cls = "none"
                      THEN registered \cup {[email |-> rq.email, password |-> rq.password,
                                             display_name |-> rq.display_name,
                                             id |-> r.user.id]}
                      ELSE registered

\* A free request thread runs handle_register up to and including the
\* pre-check of register_user.
RegisterBegin(rq) ==
  LET pre == register_precheck(users, rq.email, rq.password)
  IN /\ BagCardinality(inflight) < NumThreads
     /\ IF pre.exc.cls # "none" THEN
          /\ last' = Respond(RegisterBase(rq, pre.stage), pre.exc, NoToken, NoUser)
          /\ UNCHANGED inflight
        ELSE
          /\ Len(users) + BagCardinality(inflight) < MaxUsers
          /\ inflight' = inflight (+) SetToBag({rq})
          /\ UNCHANGED last
     /\ UNCHANGED <<config, now, users, held, registered>>

\* The thread goes on: hash_password, create_user, get_user_by_id, generate_token.
RegisterInsert(rq, salt) ==
  /\ BagIn(rq, inflight)
  /\ inflight' = inflight (-) SetToBag({rq})
  /\ InsertOutcome(rq, salt)
  /\ UNCHANGED <<config, now, held>>

\* handle_register calling register_user first and validate_email after it,
\* with a register_user that does not validate: the row of a malformed email
\* is written before the request is refused.
Register_validatelast(rq, salt) ==
  LET pre == register_precheck(users, rq.email, rq.password)
  IN /\ IF pre.stage = "validate" THEN
          /\ Len(users) < MaxUsers
          /\ users' = create_user(users, lower(strip(rq.email)),
                                  hash_password(rq.password, salt), rq.display_name, now)
          /\ last' = Respond(RegisterBase(rq, pre.stage), pre.exc, NoToken, NoUser)
          /\ UNCHANGED registered
        ELSE IF pre.exc.cls # "none" THEN
          /\ last' = Respond(RegisterBase(rq, pre.stage), pre.exc, NoToken, NoUser)
          /\ UNCHANGED <<users, registered>>
        ELSE
          /\ Len(users) < MaxUsers
          /\ InsertOutcome(rq, salt)
     /\ UNCHANGED <<config, now, inflight, held>>

\* handle_register served without interleaving, as by wsgiref's simple_server.
Register(rq, salt) ==
  LET pre == register_precheck(users, rq.email, rq.password)
  IN /\ IF pre.exc.cls # "none" THEN
          /\ last' = Respond(RegisterBase(rq, pre.stage), pre.exc, NoToken, NoUser)
          /\ UNCHANGED <<users, registered>>
        ELSE
          /\ Len(users) < MaxUsers
          /\ InsertOutcome(rq, salt)
     /\ UNCHANGED <<config, now, inflight, held>>

\* handle_login looking the email up as typed, without lower().
Login_caseful(rq) ==
  LET email == strip(rq.email)
      base == [Blank EXCEPT !.op = "login", !.email = rq.email, !.password = rq.password]
      result == authenticate_user(users, email, rq.password, now, config)
  IN /\ IF email = <<>> \/ rq.password = "" THEN
          last' = Respond([base EXCEPT !.stage = "fields"],
                          BadRequestError("Email and password are required"),
                          NoToken, NoUser)
        ELSE IF result.exc.cls # "none" THEN
          last' = Respond([base EXCEPT !.stage = "authenticate"],
                          IF IsValueError(result.exc.cls)
                          THEN UnauthorizedError(result.exc.msg) ELSE result.exc,
                          NoToken, NoUser)
        ELSE
          last' = Respond([base EXCEPT !.stage = "authenticate"], NoExc,
                          result.token, result.user)
     /\ UNCHANGED <<config, now, users, inflight, held, registered>>

\* handle_login
Login(rq) ==
  LET email == lower(strip(rq.email))
      base == [Blank EXCEPT !.op = "login", !.email = rq.email, !.password = rq.password]
      result == authenticate_user(users, email, rq.password, now, config)
  IN /\ IF email = <<>> \/ rq.password = "" THEN
          last' = Respond([base EXCEPT !.stage = "fields"],
                          BadRequestError("Email and password are required"),
                          NoToken, NoUser)
        ELSE IF result.exc.cls # "none" THEN
          last' = Respond([base EXCEPT !.stage = "authenticate"],
                          IF IsValueError(result.exc.cls)
                          THEN UnauthorizedError(result.exc.msg) ELSE result.exc,
                          NoToken, NoUser)
        ELSE
          last' = Respond([base EXCEPT !.stage = "authenticate"], NoExc,
                          result.token, result.user)
     /\ UNCHANGED <<config, now, users, inflight, held, registered>>

\* handle_profile
Profile(auth_header) ==
  LET r == _require_user(auth_header, users, now, config)
      mine == held # NoHeld /\ auth_header = Bearer(held.tok)
      base == [Blank EXCEPT !.op = "profile", !.header = auth_header,
                            !.owner = IF mine THEN held.uid ELSE 0,
                            !.dec = r.dec, !.lookups = r.lookups]
  IN /\ last' = Respond(base, r.exc, NoToken, r.user)
     /\ UNCHANGED <<config, now, users, inflight, held, registered>>

\* A client keeps the token of the response it just received.
ClientKeepToken ==
  /\ last.token # NoToken
  /\ held' = [tok |-> last.token, uid |-> last.user.id]
  /\ held' # held
  /\ UNCHANGED <<config, now, users, inflight, last, registered>>

Tick ==
  /\ now < MaxTime
  /\ now' = now + 1
  /\ UNCHANGED <<config, users, inflight, last, held, registered>>

\* Registration and login under a threaded server.
Next ==
  \/ \E rq \in RegisterRequests : RegisterBegin(rq)
  \/ \E rq \in RegisterRequests, salt \in Salts : RegisterInsert(rq, salt)
  \/ \E rq \in LoginRequests : Login(rq)
  \/ Tick

Spec == Init /\ [][Next]_vars

\* Clients that register, log in, keep tokens and present them, or tokens
\* made from them, to /api/profile; requests are served one at a time.
TokenRegisterRequests ==
  {rq \in RegisterRequests : rq.email \in {E_Alice, E_bob} /\ rq.password # ""}

TokenLoginRequests ==
  {rq \in LoginRequests : rq.email \in {E_alice, E_bob} /\ rq.password = "password123"}

\* The salt plays no part in a token: one salt is enough here.
TokenSalts == {s \in Salts : \A o \in Salts : s <= o}

TokenNext ==
  \/ \E rq \in TokenRegisterRequests, salt \in TokenSalts : Register(rq, salt)
  \/ \E rq \in TokenLoginRequests : Login(rq)
  \/ \E h \in ProfileHeaders : Profile(h)
  \/ ClientKeepToken
  \/ Tick

\* Any configured lifetime, among them none at all.
TokenInit ==
  /\ config \in [jwt_secret : {ConfiguredSecret}, token_exp_seconds : TTLs]
  /\ now = 0
  /\ users = <<>>
  /\ inflight = EmptyBag
  /\ last = Blank
  /\ held = NoHeld
  /\ registered = {}

TokenSpec == TokenInit /\ [][TokenNext]_vars

\* ---------------------------------------------------------------- the whole API
\* JmailApplication.dispatch: the handler a method and path are routed to.
dispatch(method, path) ==
  IF path = "/api/health" /\ method = "GET" THEN "health"
  ELSE IF path = "/api/register" /\ method = "POST" THEN "register"
  ELSE IF path = "/api/login" /\ method = "POST" THEN "login"
  ELSE IF path = "/api/profile" /\ method = "GET" THEN "profile"
  ELSE IF path = "/api/send" /\ method = "POST" THEN "send"
  ELSE "not found"

Routes == [method : {"GET", "POST"}, path : {"/api/send"}]

\* Emails that do not have the shape local@domain.tld.
E_space == <<"a", " ", "b", "@", "x", ".", "y">>
E_twoat == <<"a", "@", "@", "x", ".", "y">>
E_nolocal == <<"@", "x", ".", "y">>
E_notld == <<"A", "@", "x", ".">>

\* The email of E_alice in another letter case.
E_upper == <<"A", "@", "X", ".", "y">>

AccountRegisterRequests ==
  RegisterRequests
    \cup [email : {E_space, E_twoat, E_nolocal, E_notld, E_upper},
          password : {"password123"}, display_name : {NoneVal}]

AccountLoginRequests ==
  LoginRequests \cup [email : {E_upper}, password : {"password123", "hunter2"}]

\* Registration and login, every request shape, served one at a time.
AccountNext ==
  \/ \E rq \in AccountRegisterRequests, salt \in Salts : Register(rq, salt)
  \/ \E rq \in AccountLoginRequests : Login(rq)
  \/ Tick

AccountSpec == Init /\ [][AccountNext]_vars

\* The register and login requests of the clients of the whole API: two
\* accounts, a malformed email, a missing password, a wrong password.
ApiRegisterRequests ==
  {rq \in RegisterRequests : rq.email \in {E_Alice, E_bob, E_nodot}}

ApiLoginRequests ==
  {rq \in LoginRequests : rq.email \in {E_alice, E_bob} => rq.password = "password123"}

\* A token of the issuer's header and the given payload segment, signed under a secret.
SignedWith(payload_b64, secret) ==
  <<JsonSeg(HeaderObj), payload_b64,
    _b64encode(hmac_sha256(secret, JsonSeg(HeaderObj), payload_b64))>>

\* Payload segments a client can put in a token: one the application would
\* issue now for the first user, and ones it never issues.
ClientPayloads ==
  { JsonSeg([sub |-> 1, iat |-> now, exp |-> now + config.token_exp_seconds]),
    JsonSeg([sub |-> 1, iat |-> 0, exp |-> 0]),
    JsonSeg([sub |-> 1, iat |-> 0, exp |-> Absent]),
    JsonSeg([sub |-> Absent, iat |-> 0, exp |-> MaxTime + 1]),
    BadJsonSeg, BadB64Seg }

\* The tokens clients present: the ones the configured secret signs for the
\* stored users and for the next id, which has no row; client-made payloads
\* signed under the configured secret and under another one; tokens with a
\* one-character signature segment; tokens of two and of four segments.
ApiTokens ==
  { generate_token(u, iat, config) : u \in 1..(Len(users) + 1), iat \in 0..now }
    \cup { SignedWith(p, s) :
             p \in ClientPayloads,
             s \in {config.jwt_secret} \cup {o \in Secrets : o = config.jwt_secret + 1} }
    \cup { [SignedWith(p, config.jwt_secret) EXCEPT ![3] = SubSeq(@, 1, 1)] :
             p \in {q \in ClientPayloads : q.kind # "json" \/ q.obj.exp > now} }
    \cup { SubSeq(generate_token(1, now, config), 1, 2),
           generate_token(1, now, config) \o <<<<0>>>> }

ApiHeaders ==
  { NoHeader, [scheme |-> "Basic", token |-> NoToken],
    [scheme |-> "bearer", token |-> generate_token(1, now, config)],
    [scheme |-> "Bearer", token |-> NoToken] }
    \cup { Bearer(t) : t \in ApiTokens }

S_hi == <<"H", "i">>

GoodBody == SendBody(E_bob, S_hi, S_hi, <<>>)

SendBodies ==
  { GoodBody,
    SendBody(E_Alice, S_hi, S_hi, E_alice),
    SendBody(E_bob, S_hi, S_hi, E_nodot),
    SendBody(E_nodot, S_hi, S_hi, <<>>),
    SendBody(E_blank, S_hi, S_hi, <<>>),
    SendBody(E_bob, <<" ">>, S_hi, <<>>),
    SendBody(E_bob, S_hi, <<>>, <<>>),
    NoBody, BadJsonBody }

\* The headers of /api/send requests: the ones that are no Bearer header, a
\* token for the first user issued now and one issued at time 0, one for the
\* id after the last row, and one signed under another secret.
SendHeaders ==
  { h \in ApiHeaders : h.scheme # "Bearer" \/ h.token = NoToken }
    \cup { Bearer(generate_token(1, now, config)),
           Bearer(generate_token(1, 0, config)),
           Bearer(generate_token(Len(users) + 1, now, config)),
           Bearer(SignedWith(JsonSeg([sub |-> 1, iat |-> now,
                                      exp |-> now + config.token_exp_seconds]),
                             config.jwt_secret + 1)) }

\* /api/send requests: every body with the token issued now; the complete
\* body and one that is not JSON with every other header; the mail server
\* accepts every message but one.
SendRequests ==
  [header : {Bearer(generate_token(1, now, config))}, body : SendBodies, smtp_ok : {TRUE}]
    \cup [header : SendHeaders, body : {GoodBody, BadJsonBody}, smtp_ok : {TRUE}]
    \cup [header : {Bearer(generate_token(1, now, config))},
          body : {SendBody(E_Alice, S_hi, S_hi, E_alice)}, smtp_ok : {FALSE}]

\* handle_send
Send(auth_header, body, smtp_ok) ==
  LET r == handle_send(auth_header, body, users, now, config, smtp_ok)
      base == [Blank EXCEPT !.op = "send", !.stage = r.stage, !.header = auth_header,
                            !.body = body, !.dec = r.dec, !.lookups = r.lookups,
                            !.mail = r.mail]
  IN /\ last' = Respond(base, r.exc, NoToken, NoUser)
     /\ UNCHANGED <<config, now, users, inflight, held, registered>>

\* GET /api/health
Health ==
  /\ last' = Respond([Blank EXCEPT !.op = dispatch("GET", "/api/health")],
                     NoExc, NoToken, NoUser)
  /\ UNCHANGED <<config, now, users, inflight, held, registered>>

\* A method and path no handler is routed to: dispatch returns the 404 response.
NotFound(method, path) ==
  /\ dispatch(method, path) = "not found"
  /\ last' = [Respond([Blank EXCEPT !.op = "not found"], NoExc, NoToken, NoUser)
                EXCEPT !.status = 404, !.error = "Not found"]
  /\ UNCHANGED <<config, now, users, inflight, held, registered>>

\* __call__ on a request whose Content-Length is not a number: build_request
\* raises before the try block is entered, and nothing is handed to
\* start_response.
CallBadLength(method, path) ==
  LET exc == build_request("abc")
  IN /\ exc.cls # "none"
     /\ last' = [Blank EXCEPT !.op = "call", !.raised = exc.cls,
                              !.propagated = exc.cls, !.at = now]
     /\ UNCHANGED <<config, now, users, inflight, held, registered>>

\* Every endpoint, requests served one at a time.
ApiNext ==
  \/ \E rq \in ApiRegisterRequests, salt \in TokenSalts : Register(rq, salt)
  \/ \E rq \in ApiLoginRequests : Login(rq)
  \/ \E h \in ApiHeaders : Profile(h)
  \/ \E rq \in SendRequests : Send(rq.header, rq.body, rq.smtp_ok)
  \/ Health
  \/ \E rt \in Routes : NotFound(rt.method, rt.path)
  \/ \E rt \in Routes : CallBadLength(rt.method, rt.path)
  \/ Tick

\* A deployment whose tokens live one second, with or without SMTP credentials.
ApiInit ==
  /\ config \in [jwt_secret : {ConfiguredSecret}, token_exp_seconds : {1},
                  smtp_configured : BOOLEAN]
  /\ now = 0
  /\ users = <<>>
  /\ inflight = EmptyBag
  /\ last = Blank
  /\ held = NoHeld
  /\ registered = {}

ApiSpec == ApiInit /\ [][ApiNext]_vars

\* ---------------------------------------------------------------- stored credentials
\* The password_hash column of a row some other writer left in the database
\* file: the '$'-separated parts of a string without '$', with one and with
\* two of them, of an empty string, and of a credential hash_password made.
StoredCredentials ==
  LET good == hash_password("password123", CHOOSE salt \in Salts : TRUE)
  IN { good, <<good[1]>>, <<good[1] \o good[2]>>, <<<<>>>>, <<<<>>, <<>>, <<>>>>,
       <<good[1], good[2], good[2]>>, <<good[1], <<>>, good[2]>>,
       <<good[1], <<JunkCh>>>>, <<good[1], <<0>>>> }

\* The application opened on a database file that holds one such row.
CredInit ==
  /\ config = [jwt_secret |-> ConfiguredSecret, token_exp_seconds |-> MaxTTL]
  /\ now = 0
  /\ users \in { <<[id |-> 1, email |-> E_alice, password_hash |-> c,
                     display_name |-> NoneVal, created_at |-> 0]>> :
                    c \in StoredCredentials }
  /\ inflight = EmptyBag
  /\ last = Blank
  /\ held = NoHeld
  /\ registered = {}

CredNext ==
  \/ \E rq \in LoginRequests : Login(rq)
  \/ Tick

CredSpec == CredInit /\ [][CredNext]_vars

\* ================================================================ claims
Normalized(raw_email) == lower(strip(raw_email))

\* The register requests answered 200 whose email and password a request repeats.
RegisteredAs(raw_email, password) ==
  {r \in registered : r.email = raw_email /\ r.password = password}

\* C1 as stated: a login that repeats the email e and password p of a
\* successful register is answered 200 with a non-empty token and a user view
\* whose email equals e and whose display_name is the registered one.
C1_LoginEchoesEmail ==
  last.op = "login" =>
    \A r \in RegisteredAs(last.email, last.password) :
      /\ last.status = 200
      /\ last.token # NoToken
      /\ last.user.email = r.email
      /\ last.user.display_name = r.display_name

\* C1 amended: such a login is answered 200 with a non-empty token and a user
\* view whose email is e stripped and lowercased, whose id is the registered
\* user's and whose display_name is the registered one.
C1_LoginAfterRegister ==
  last.op = "login" =>
    \A r \in RegisteredAs(last.email, last.password) :
      /\ last.status = 200
      /\ last.token # NoToken
      /\ last.user.email = Normalized(r.email)
      /\ last.user.id = r.id
      /\ last.user.display_name = r.display_name

\* C1 witness: a login with the credentials of the second registered user,
\* at a later time than the registration, is answered 200.
C1_Witness ==
  /\ last.op = "login" /\ last.status = 200
  /\ \E r \in RegisteredAs(last.email, last.password) :
       r.id = 2 /\ last.at > users[2].created_at

\* C2: a token that register or login returned for user u, presented as a
\* Bearer token to /api/profile before its expiry, is answered 200 with the
\* view of u, the row of that id and email, and of no other user.
C2_ProfileOfTokenOwner ==
  (last.op = "profile" /\ last.owner # 0
     /\ last.at < last.header.token[2].obj.exp) =>
    /\ last.status = 200
    /\ last.user.id = last.owner
    /\ last.owner \in 1..Len(users)
    /\ last.user = row_to_dict(users[last.owner])
    /\ \A i \in 1..Len(users) : i # last.owner => last.user.email # users[i].email

\* C2 witness: the second user's token, presented after the time it was
\* issued at while two users exist, is answered 200.
C2_Witness ==
  /\ last.op = "profile" /\ last.owner = 2 /\ last.status = 200
  /\ last.at > last.header.token[2].obj.iat
  /\ Len(users) = 2

\* C3: a register with email and password whose normalized email the store
\* holds at the pre-check is answered 409 'Email already registered' without a
\* token, and leaves the users table as it was.
C3_SecondRegisterConflicts ==
  [][\A rq \in RegisterRequests :
       ( /\ rq.password # ""
         /\ \E i \in 1..Len(users) : users[i].email = Normalized(rq.email)
         /\ RegisterBegin(rq) )
       => ( /\ last'.op = "register"
            /\ last'.status = 409
            /\ last'.error = "Email already registered"
            /\ last'.token = NoToken
            /\ last'.user = NoUser
            /\ users' = users )]_vars

\* C3 witness: a register for an email stored under another spelling was
\* stopped at the pre-check, the first user's row still in place.
C3_Witness ==
  /\ last.op = "register" /\ last.stage = "precheck" /\ last.status = 409
  /\ \E r \in registered :
       /\ r.email # last.email
       /\ Normalized(r.email) = Normalized(last.email)
       /\ users[r.id].password_hash # <<>>
       /\ verify_password(r.password, users[r.id].password_hash).val

\* C4: whatever the interleaving of register requests, no two rows of the
\* users table have the same email and no two requests for the same email
\* were answered 200.
C4_OneWinnerPerEmail ==
  /\ \A i, j \in 1..Len(users) : users[i].email = users[j].email => i = j
  /\ \A r1, r2 \in registered :
       Normalized(r1.email) = Normalized(r2.email) => r1 = r2

\* C4 witness: a register that had passed the pre-check found the email
\* taken at its insert.
C4_Witness ==
  /\ last.op = "register" /\ last.stage = "unique"
  /\ \E r \in registered : Normalized(r.email) = Normalized(last.email)

\* C5: a register that passed the pre-check and whose insert the uniqueness
\* constraint rejected is answered 409.
C5_LostRaceIsConflict ==
  (last.op = "register" /\ last.stage = "unique") => last.status = 409

\* The observable part of a response.
Observable(r) == [status |-> r.status, error |-> r.error, token |-> r.token, user |-> r.user]

GenericLoginFailure ==
  [status |-> 401, error |-> "Invalid email or password", token |-> NoToken,
   user |-> NoUser]

UnknownEmail(raw_email) ==
  \A i \in 1..Len(users) : users[i].email # Normalized(raw_email)

WrongPassword(raw_email, password) ==
  /\ password # ""
  /\ \E r \in registered :
       Normalized(r.email) = Normalized(raw_email) /\ r.password # password

\* C6: a login for an email that is not registered and a login with a wrong
\* password for a registered email get the same response: 401 with the
\* message 'Invalid email or password', no token and no user.
C6_LoginFailuresAlike ==
  (last.op = "login" /\ last.stage = "authenticate") =>
    /\ UnknownEmail(last.email) => Observable(last) = GenericLoginFailure
    /\ WrongPassword(last.email, last.password) => Observable(last) = GenericLoginFailure

\* C6 witness: a login with a wrong password for a registered email was refused.
C6_Witness ==
  /\ last.op = "login" /\ last.status = 401
  /\ WrongPassword(last.email, last.password)

\* The token is the three segments a signer holding the secret produces.
SignedUnder(token, secret) ==
  /\ Len(token) = 3
  /\ token[2].kind = "json"
  /\ token[3] = _b64encode(hmac_sha256(secret, token[1], token[2]))

BearerProfile == last.op = "profile" /\ last.header.scheme = "Bearer"

\* C7: a token correctly signed under the configured secret, with expiry
\* exp, is accepted by decode_token at every time before exp and rejected
\* with 'Token expired' at exp and at every later time; /api/profile answers
\* the rejection with 401 'Token expired'; the clock never goes back, so a
\* token rejected as expired is not accepted afterwards.
C7_ExpiryBoundary ==
  (BearerProfile /\ SignedUnder(last.header.token, config.jwt_secret)) =>
    LET token == last.header.token
        exp == token[2].obj.exp
    IN /\ last.at < exp => last.dec = "ok"
       /\ last.at >= exp =>
            /\ last.dec = "Token expired"
            /\ last.status = 401
            /\ last.error = "Token expired"
       /\ last.at <= now
       /\ \A t \in 0..(MaxTime + 1) :
            decode_token(token, t, config).msg
              = IF t < exp THEN "ok" ELSE "Token expired"

\* C7 witness: an issued token with a positive lifetime was presented at the
\* instant of its expiry and rejected as expired.
C7_Witness ==
  /\ BearerProfile /\ last.owner # 0
  /\ last.header.token[2].obj.exp > last.header.token[2].obj.iat
  /\ last.at = last.header.token[2].obj.exp
  /\ last.error = "Token expired"

\* Issuing for a user at a time under a secret and lifetime, and decoding at
\* that same time under the same secret, gives back the user as sub.
RoundTrips(user_id, at, secret, ttl) ==
  LET cfg == [jwt_secret |-> secret, token_exp_seconds |-> ttl]
      d == decode_token(generate_token(user_id, at, cfg), at, cfg)
  IN d.exc = "none" /\ d.payload.sub = user_id

\* C8 as stated: for every user id, time, lifetime and secret, a token decoded
\* at the time it was issued at, under the same secret, decodes to a payload
\* whose sub is the user id; so does every token a response carries.
C8_RoundTripAnyTtl ==
  last.token # NoToken =>
    /\ decode_token(last.token, last.at, config).payload.sub = last.user.id
    /\ \A s \in Secrets : RoundTrips(last.user.id, last.at, s, config.token_exp_seconds)

\* C8 amended: the same for every lifetime of at least one second.
C8_RoundTripPositiveTtl ==
  (last.token # NoToken /\ config.token_exp_seconds >= 1) =>
    /\ decode_token(last.token, last.at, config).payload.sub = last.user.id
    /\ \A s \in Secrets, ttl \in 1..MaxTTL : RoundTrips(last.user.id, last.at, s, ttl)

\* C8 witness: a token was issued to the second user after time 0 under a
\* positive lifetime.
C8_Witness ==
  /\ last.token # NoToken /\ config.token_exp_seconds >= 1
  /\ last.user.id = 2 /\ last.at >= 1

\* C9: a token issued under another secret than the configured one is
\* rejected by decode_token at every time, and /api/profile answers it 401
\* without a store lookup.
C9_ForeignSecretRejected ==
  (BearerProfile
     /\ \E s \in Secrets \ {config.jwt_secret} : SignedUnder(last.header.token, s)) =>
    /\ last.dec = "Invalid signature"
    /\ last.status = 401
    /\ last.lookups = 0
    /\ last.user = NoUser
    /\ \A t \in 0..(MaxTime + 1) :
         decode_token(last.header.token, t, config).msg = "Invalid signature"

\* C9 witness: an unexpired token naming an existing user, signed under
\* another secret, was refused.
C9_Witness ==
  /\ BearerProfile /\ last.status = 401
  /\ \E s \in Secrets \ {config.jwt_secret} : SignedUnder(last.header.token, s)
  /\ last.header.token[2].obj.sub \in 1..Len(users)
  /\ last.at < last.header.token[2].obj.exp

\* C10: a three-part token whose header and payload are those of a validly
\* signed token and whose signature segment is anything else than the valid
\* one is rejected by decode_token with 'Invalid signature'.
C10_TamperedSignatureInvalid ==
  (BearerProfile /\ Len(last.header.token) = 3
     /\ last.header.token[2].kind = "json"
     /\ ~SignedUnder(last.header.token, config.jwt_secret)) =>
    last.dec = "Invalid signature"

\* A request to one of the endpoints that call _require_user.
Authenticated == last.op \in {"profile", "send"}

\* C11: a request to /api/profile or /api/send whose Authorization header is
\* absent or does not start with 'Bearer ' is answered 401, without decoding
\* a token, without a store lookup, and without a user view or a mail.
C11_NoBearerNoDecode ==
  (Authenticated /\ last.header.scheme # "Bearer") =>
    /\ last.status = 401
    /\ last.dec = "not decoded"
    /\ last.lookups = 0
    /\ last.user = NoUser
    /\ last.mail = "not invoked"

\* C11 witness: a complete /api/send request whose header carries, after the
\* prefix 'bearer ', a token the application accepts at that time, refused.
C11_Witness ==
  /\ last.op = "send" /\ last.status = 401 /\ last.body = GoodBody
  /\ last.header.scheme = "bearer"
  /\ _require_user(Bearer(last.header.token), users, last.at, config).exc = NoExc

\* C12: a token correctly signed under the configured secret and not yet
\* expired, whose sub is an id the users table has no row for, is answered
\* 401 'User not found', and no user view is returned.
C12_OrphanTokenUnauthorized ==
  (Authenticated /\ last.header.scheme = "Bearer"
     /\ SignedUnder(last.header.token, config.jwt_secret)
     /\ last.at < last.header.token[2].obj.exp
     /\ last.header.token[2].obj.sub # Absent
     /\ last.header.token[2].obj.sub \notin 1..Len(users)) =>
    /\ last.status = 401
    /\ last.error = "User not found"
    /\ last.user = NoUser
    /\ last.mail = "not invoked"

\* C12 witness: while one user is stored, a token for the id 2, signed under
\* the configured secret and unexpired, was answered after one store lookup.
C12_Witness ==
  /\ last.op = "profile" /\ last.error = "User not found" /\ last.lookups = 1
  /\ Len(users) = 1 /\ last.header.token[2].obj.sub = 2
  /\ last.at < last.header.token[2].obj.exp

\* The shape local@domain.tld: no whitespace, exactly one '@', a '.' in the
\* domain, and nothing empty before the '@', between it and that '.', and after it.
LocalAtDomainTld(address) ==
  LET ats == {i \in 1..Len(address) : address[i] = "@"}
  IN /\ Cardinality(ats) = 1
     /\ \A k \in 1..Len(address) : address[k] # " "
     /\ \E i \in ats, j \in 1..Len(address) :
          address[j] = "." /\ 1 < i /\ i + 1 < j /\ j < Len(address)

\* C13: a register request whose normalized email does not have the shape
\* local@domain.tld is answered 400 without a token or a user view, and no
\* row of the users table has that email or any email of another shape.
C13_InvalidEmailRejected ==
  /\ \A i \in 1..Len(users) : LocalAtDomainTld(users[i].email)
  /\ (last.op = "register" /\ ~LocalAtDomainTld(Normalized(last.email))) =>
       /\ last.status = 400
       /\ last.token = NoToken
       /\ last.user = NoUser
       /\ \A i \in 1..Len(users) : users[i].email # Normalized(last.email)

\* C13 witness: with a user stored, a register whose email has a space inside
\* the local part was refused by validate_email.
C13_Witness ==
  /\ last.op = "register" /\ last.stage = "validate" /\ last.status = 400
  /\ last.error = "Invalid email address"
  /\ last.email = E_space /\ last.password # ""
  /\ Len(users) >= 1

UpperLetters == {"A", "B", "X"}
HasUpper(address) == \E k \in 1..Len(address) : address[k] \in UpperLetters

\* The two emails have the same length and differ at most in the case of letters.
SameButCase(e1, e2) ==
  /\ Len(e1) = Len(e2)
  /\ \A k \in 1..Len(e1) :
       \/ e1[k] = e2[k]
       \/ <<e1[k], e2[k]>> \in {<<"A", "a">>, <<"a", "A">>, <<"B", "b">>, <<"b", "B">>,
                                <<"X", "x">>, <<"x", "X">>}

\* C14: no stored email has an upper-case letter; a login whose email is, up
\* to letter case, the email of a successful register and whose password is
\* that register's is answered 200 with that user; a later register with
\* such an email is answered 409 'Email already registered'.
C14_CaseInsensitiveAccounts ==
  /\ \A i \in 1..Len(users) : ~HasUpper(users[i].email)
  /\ last.op = "login" =>
       \A r \in registered :
         (SameButCase(r.email, last.email) /\ r.password = last.password) =>
           /\ last.status = 200
           /\ last.user.id = r.id
  /\ (last.op = "register" /\ last.password # "") =>
       \A r \in registered :
         (SameButCase(r.email, last.email) /\ ~(last.status = 200 /\ last.user.id = r.id)) =>
           /\ last.status = 409
           /\ last.error = "Email already registered"

\* C14 witness: a login that spells in upper case the email a user registered
\* in lower case was answered 200.
C14_Witness ==
  /\ last.op = "login" /\ last.status = 200 /\ HasUpper(last.email)
  /\ \E r \in registered :
       /\ ~HasUpper(r.email) /\ SameButCase(r.email, last.email)
       /\ r.id = last.user.id

ViewFields == {"id", "email", "display_name", "created_at"}

\* C15: the user view of every response has exactly the fields id, email,
\* display_name and created_at, each the column of one stored row; the payload
\* of a token in a response has the fields sub, iat and exp; so no response
\* carries a stored password credential.
C15_NoCredentialInResponse ==
  /\ DOMAIN last.user = ViewFields
  /\ last.user # NoUser =>
       \E i \in 1..Len(users) :
         last.user = [id |-> users[i].id, email |-> users[i].email,
                      display_name |-> users[i].display_name,
                      created_at |-> [iso |-> users[i].created_at]]
  /\ last.token # NoToken =>
       /\ Len(last.token) = 3
       /\ DOMAIN last.token[2].obj = {"sub", "iat", "exp"}
       /\ last.token[1].obj = HeaderObj
  /\ last.status # 200 => (last.user = NoUser /\ last.token = NoToken)

\* C15 witness: /api/profile answered 200 with the view of a user whose row
\* holds the credential of a password.
C15_Witness ==
  /\ last.op = "profile" /\ last.status = 200
  /\ \E k \in 1..Len(Passwords) :
       verify_password(Passwords[k], users[last.user.id].password_hash).val

\* The signature segment is the encoding generate_token gives the signature
\* of the token's first two segments.
SignatureMatches(token) ==
  token[3] = _b64encode(hmac_sha256(config.jwt_secret, token[1], token[2]))

\* C16: decode_token rejects a token that is not three segments with
\* 'Malformed token'; a three-segment token whose signature does not match
\* with 'Invalid signature', whatever its payload segment holds; a token
\* whose signature matches and whose payload is expired with 'Token expired'.
C16_ChecksInOrder ==
  (last.op = "profile" /\ last.header.scheme = "Bearer") =>
    LET token == last.header.token
    IN /\ Len(token) # 3 => last.dec = "Malformed token"
       /\ (Len(token) = 3 /\ ~SignatureMatches(token)) => last.dec = "Invalid signature"
       /\ (Len(token) = 3 /\ SignatureMatches(token) /\ token[2].kind = "json"
             /\ last.at >= token[2].obj.exp) => last.dec = "Token expired"

\* The credential is not the parts of a string with exactly one '$'.
MalformedCredential(stored) == Len(stored) # 2

\* C17: for a stored credential without exactly one '$', verify_password
\* returns false for every password and raises nothing, and a login for that
\* row is answered as a wrong password is: 401 'Invalid email or password'.
C17_MalformedCredentialFailsClosed ==
  \A i \in 1..Len(users) :
    MalformedCredential(users[i].password_hash) =>
      /\ \A k \in 1..Len(Passwords) :
           verify_password(Passwords[k], users[i].password_hash)
             = [exc |-> "none", msg |-> "none", val |-> FALSE]
      /\ (last.op = "login" /\ last.stage = "authenticate"
            /\ Normalized(last.email) = users[i].email) =>
           Observable(last) = GenericLoginFailure

\* C17 witness: a login for a row whose credential has two '$' was refused.
C17_Witness ==
  /\ last.op = "login" /\ last.status = 401 /\ last.password = "password123"
  /\ Len(users) = 1 /\ Len(users[1].password_hash) = 3
  /\ Normalized(last.email) = users[1].email

\* C18: every request handed to the application is answered by one
\* start_response call with a status and a body, an error status with an
\* error message; no exception leaves the application.
C18_EveryRequestAnswered ==
  last.op # "none" =>
    /\ last.started = 1
    /\ last.propagated = "none"
    /\ last.status \in {200, 400, 401, 404, 409, 500}
    /\ last.status # 200 => last.error # "none"
    /\ last.raised # "none" => last.status # 200

\* C19: a step changes the users table only by a register answered 200, which
\* appends exactly one row, the row of the user in the response, and leaves
\* every other row as it was.
C19_OnlyRegisterAddsRow ==
  [][users' # users =>
       /\ last'.op = "register"
       /\ last'.status = 200
       /\ Len(users') = Len(users) + 1
       /\ SubSeq(users', 1, Len(users)) = users
       /\ users'[Len(users')].id = last'.user.id]_vars

\* C19 witness: a second user was registered at a later time than the first,
\* whose row is still the first.
C19_Witness ==
  /\ last.op = "register" /\ last.status = 200 /\ last.user.id = 2
  /\ Len(users) = 2 /\ users[1].id = 1
  /\ users[1].created_at < users[2].created_at

\* The signature segment decodes to the signature of the first two segments
\* under the configured secret.
Verifies(token) ==
  /\ Len(token) = 3
  /\ token[2].kind = "json"
  /\ _b64decode(token[3]).ok
  /\ _b64decode(token[3]).bytes = hmac_sha256(config.jwt_secret, token[1], token[2])

\* The request carries a correctly signed, unexpired token of a stored user.
CarriesUserToken(rq) ==
  /\ rq.header.scheme = "Bearer"
  /\ Verifies(rq.header.token)
  /\ rq.at < rq.header.token[2].obj.exp
  /\ rq.header.token[2].obj.sub \in 1..Len(users)

\* C20: send_email is invoked only by a /api/send request that carries a
\* correctly signed, unexpired token of a stored user and a JSON body whose
\* recipient, subject and body are not blank and whose recipient has the
\* shape of an address; a /api/send request without such a token is answered
\* 401, whatever its body, and invokes nothing.
C20_SendOnlyWhenAuthorized ==
  /\ last.mail # "not invoked" =>
       /\ last.op = "send"
       /\ CarriesUserToken(last)
       /\ last.body.kind = "json"
       /\ strip(last.body.to) # <<>>
       /\ strip(last.body.subject) # <<>>
       /\ strip(last.body.body) # <<>>
       /\ LocalAtDomainTld(strip(last.body.to))
  /\ (last.op = "send" /\ ~CarriesUserToken(last)) =>
       /\ last.status = 401
       /\ last.mail = "not invoked"

\* C20 witness: a /api/send request with the token of a stored user, a padded
\* recipient and a reply address had its message handed to the mail server.
C20_Witness ==
  /\ last.op = "send" /\ last.mail = "sent" /\ last.status = 200
  /\ last.body.reply_to # <<>> /\ last.body.to # strip(last.body.to)
  /\ CarriesUserToken(last)

====
